---- MODULE Spec2Model ----
(***************************************************************************)
(* A model of the collision routines of SerenityJS/math:                   *)
(*   src/src/vec3f.rs           Vector3f                                    *)
(*   src/src/collision/aabb.rs  AABB::intersects, on_line, within_axis,     *)
(*                              intercept                                   *)
(*   src/src/collision/ray.rs   Raycaster::transverse_blocks                *)
(*                                                                         *)
(* An f64 is modelled as an extended rational: a finite value n/d in       *)
(* lowest terms with a sign bit (so that +0.0 and -0.0 are distinct),      *)
(* +infinity, -infinity or NaN.  The arithmetic follows IEEE-754 for the   *)
(* special values (signed zeros, x/0, inf*0, inf-inf, comparisons with     *)
(* NaN); finite results are exact, i.e. rounding is not modelled.          *)
(***************************************************************************)
EXTENDS Integers, Sequences, FiniteSets

(***************************************************************************)
(* f64 values                                                              *)
(***************************************************************************)
Abs(i) == IF i < 0 THEN -i ELSE i

RECURSIVE GCD(_, _)
GCD(i, j) == IF j = 0 THEN i ELSE GCD(j, i % j)

NaN == [k |-> "nan", n |-> 0, d |-> 1, s |-> 1]

Inf(sg) == [k |-> "inf", n |-> 0, d |-> 1, s |-> sg]

INFINITY == Inf(1)

Zero(sg) == [k |-> "fin", n |-> 0, d |-> 1, s |-> sg]

\* the finite value num/den (den # 0); zs is the sign a zero result carries
Mk(num, den, zs) ==
    IF num = 0 THEN Zero(zs)
    ELSE LET g  == GCD(Abs(num), Abs(den))
             sg == IF (num < 0) = (den < 0) THEN 1 ELSE -1
         IN  [k |-> "fin", n |-> sg * (Abs(num) \div g), d |-> Abs(den) \div g, s |-> sg]

Num(i) == Mk(i, 1, 1)

Frac(i, j) == Mk(i, j, 1)

NegZero == Zero(-1)

IsNaN(a) == a.k = "nan"

IsZero(a) == a.k = "fin" /\ a.n = 0

FNeg(a) ==
    IF a.k = "nan" THEN NaN
    ELSE IF a.k = "inf" THEN Inf(-a.s)
    ELSE [a EXCEPT !.n = -a.n, !.s = -a.s]

FAdd(a, b) ==
    IF a.k = "nan" \/ b.k = "nan" THEN NaN
    ELSE IF a.k = "inf" /\ b.k = "inf" THEN (IF a.s = b.s THEN a ELSE NaN)
    ELSE IF a.k = "inf" THEN a
    ELSE IF b.k = "inf" THEN b
    ELSE LET g == GCD(a.d, b.d)
         IN  Mk(a.n * (b.d \div g) + b.n * (a.d \div g), (a.d \div g) * b.d,
                IF a.s = -1 /\ b.s = -1 THEN -1 ELSE 1)

FSub(a, b) == FAdd(a, FNeg(b))

FMul(a, b) ==
    IF a.k = "nan" \/ b.k = "nan" THEN NaN
    ELSE IF a.k = "inf" \/ b.k = "inf"
         THEN (IF IsZero(a) \/ IsZero(b) THEN NaN ELSE Inf(a.s * b.s))
    ELSE Mk(a.n * b.n, a.d * b.d, a.s * b.s)

FDiv(a, b) ==
    IF a.k = "nan" \/ b.k = "nan" THEN NaN
    ELSE IF a.k = "inf" THEN (IF b.k = "inf" THEN NaN ELSE Inf(a.s * b.s))
    ELSE IF b.k = "inf" THEN Zero(a.s * b.s)
    ELSE IF IsZero(b) THEN (IF IsZero(a) THEN NaN ELSE Inf(a.s * b.s))
    ELSE Mk(a.n * b.d, a.d * b.n, a.s * b.s)

\* f64::floor: floor(-0.0) = -0.0, floor of a value in [+0,1) is +0.0
FFloor(a) ==
    IF a.k # "fin" THEN a
    ELSE Mk(a.n \div a.d, 1, a.s)

\* f64::signum: 1.0 for positive values, +0.0 and +inf; -1.0 for negative
\* values, -0.0 and -inf; NaN for NaN
FSignum(a) ==
    IF a.k = "nan" THEN NaN
    ELSE IF a.s = 1 THEN Num(1) ELSE Num(-1)

FLt(a, b) ==
    /\ a.k # "nan"
    /\ b.k # "nan"
    /\ IF a.k = "inf" THEN a.s = -1 /\ ~(b.k = "inf" /\ b.s = -1)
       ELSE IF b.k = "inf" THEN b.s = 1
       ELSE LET g == GCD(a.d, b.d) IN a.n * (b.d \div g) < b.n * (a.d \div g)

FEq(a, b) ==
    /\ a.k # "nan"
    /\ b.k # "nan"
    /\ IF a.k = "inf" \/ b.k = "inf" THEN a.k = b.k /\ a.s = b.s
       ELSE a.n = b.n /\ a.d = b.d

FLe(a, b) == FLt(a, b) \/ FEq(a, b)

FGt(a, b) == FLt(b, a)

FGe(a, b) == FLe(b, a)

(***************************************************************************)
(* Vector3f (src/src/vec3f.rs)                                             *)
(***************************************************************************)
Axes == {"X", "Y", "Z"}

Vector3f(vx, vy, vz) == [x |-> vx, y |-> vy, z |-> vz]

axis(v, ax) == IF ax = "X" THEN v.x ELSE IF ax = "Y" THEN v.y ELSE v.z

dot(u, v) == FAdd(FAdd(FMul(u.x, v.x), FMul(u.y, v.y)), FMul(u.z, v.z))

square_length(v) == dot(v, v)

subtract(u, v) == Vector3f(FSub(u.x, v.x), FSub(u.y, v.y), FSub(u.z, v.z))

floor(v) == Vector3f(FFloor(v.x), FFloor(v.y), FFloor(v.z))

equals(u, v) == FEq(u.x, v.x) /\ FEq(u.y, v.y) /\ FEq(u.z, v.z)

(***************************************************************************)
(* Bounds of the model                                                     *)
(***************************************************************************)
\* ray end points: coordinates k/2 for k in 0..MaxKX (resp. Y, Z), and -0.0
MaxKX == 7

MaxKY == 2

MaxKZ == 1

\* cap on the number of predicate invocations explored in one traversal
MaxCalls == 14

Grid(m) == {Frac(k, 2) : k \in 0..m} \cup {NegZero}

RayPoints == {Vector3f(px, py, pz) : px \in Grid(MaxKX), py \in Grid(MaxKY), pz \in Grid(MaxKZ)}

\* what a call of the JavaScript predicate can produce
CallbackResults == {"true", "false", "err"}

None == [k |-> "none"]

NoVec == Vector3f(None, None, None)

VARIABLES
    pc,                \* position in the operation being executed
    start, end,        \* the segment (transverse_blocks, intercept)
    current_position,  \* transverse_blocks: current block
    step, stepSize,    \* transverse_blocks: locals step, step_size
    tmax,              \* transverse_blocks: local tmax
    calls,             \* history: the blocks passed to the predicate, in order
    results,           \* history: what the predicate produced for each call
    stepped,           \* history: the axis stepped by the last loop iteration
    prev_tmax,         \* history: tmax before the last loop iteration
    self,              \* intersects: the box the method is called on
    aabb,              \* intersects, intercept: the box argument
    face_index,        \* intercept: position in the faces vector (1..6, 7 = past the end)
    min_distance,      \* intercept: local min_distance
    hit_position,      \* intercept: local hit_position
    ret                \* intersects, intercept: the value returned

rayVars == <<current_position, step, stepSize, tmax, calls, results, stepped, prev_tmax>>

boxVars == <<self, aabb, face_index, min_distance, hit_position, ret>>

vars == <<pc, start, end, rayVars, boxVars>>

(***************************************************************************)
(* Raycaster (src/src/collision/ray.rs)                                    *)
(***************************************************************************)
\* variant: the sign of a zero is zero (Math.sign)
sign_zero(vector) ==
    Vector3f(IF IsZero(vector.x) THEN vector.x ELSE FSignum(vector.x),
             IF IsZero(vector.y) THEN vector.y ELSE FSignum(vector.y),
             IF IsZero(vector.z) THEN vector.z ELSE FSignum(vector.z))

sign(vector) == Vector3f(FSignum(vector.x), FSignum(vector.y), FSignum(vector.z))

step_size(st, direction) ==
    Vector3f(IF FEq(st.x, Num(0)) THEN INFINITY ELSE FDiv(st.x, direction.x),
             IF FEq(st.y, Num(0)) THEN INFINITY ELSE FDiv(st.y, direction.y),
             IF FEq(st.z, Num(0)) THEN INFINITY ELSE FDiv(st.z, direction.z))

boundary(n) == FSub(FFloor(n), n)

\* one component of the initial tmax (ray.rs lines 37-41)
tmax_component(ss, st, d) ==
    FMul(ss, IF FGt(st, Num(0)) THEN FSub(Num(1), boundary(d)) ELSE boundary(d))

initial_tmax(ss, st, direction) ==
    Vector3f(tmax_component(ss.x, st.x, direction.x),
             tmax_component(ss.y, st.y, direction.y),
             tmax_component(ss.z, st.z, direction.z))

\* the while condition (ray.rs line 43)
loop_condition(t) == FLe(t.x, Num(1)) \/ FLe(t.y, Num(1)) \/ FLe(t.z, Num(1))

\* variant: the comparisons are <= instead of <
select_axis_le(t) ==
    IF FLe(t.x, t.y) /\ FLe(t.x, t.z) THEN "X"
    ELSE IF FLe(t.y, t.z) THEN "Y"
    ELSE "Z"

\* the axis the loop body steps along (ray.rs lines 45-54)
select_axis(t) ==
    IF FLt(t.x, t.y) /\ FLt(t.x, t.z) THEN "X"
    ELSE IF FLt(t.y, t.z) THEN "Y"
    ELSE "Z"

\* v with component ax advanced by delta.ax
step_along(v, delta, ax) ==
    [x |-> IF ax = "X" THEN FAdd(v.x, delta.x) ELSE v.x,
     y |-> IF ax = "Y" THEN FAdd(v.y, delta.y) ELSE v.y,
     z |-> IF ax = "Z" THEN FAdd(v.z, delta.z) ELSE v.z]

\* variant: the value the predicate returned is dropped
check_callback_ignored(r) == FALSE

\* check_callback: Ok(value) => value; Err(_) panics (handled by the callers below)
check_callback(r) == r = "true"

direction == subtract(end, start)

\* line 23: start.equals(end) => return without calling the predicate
ReturnEqual ==
    /\ pc = "start"
    /\ equals(start, end)
    /\ pc' = "done"
    /\ UNCHANGED <<start, end, rayVars, boxVars>>

\* lines 26-41: the first block, then the set-up of the traversal
FirstBlock(r) ==
    /\ pc = "start"
    /\ ~equals(start, end)
    /\ current_position' = floor(start)
    /\ calls' = Append(calls, floor(start))
    /\ results' = Append(results, r)
    /\ IF r = "err"
       THEN pc' = "panic" /\ UNCHANGED <<step, stepSize, tmax>>
       ELSE IF check_callback(r)
       THEN pc' = "done" /\ UNCHANGED <<step, stepSize, tmax>>
       ELSE /\ pc' = "loop"
            /\ step' = sign(direction)
            /\ stepSize' = step_size(sign(direction), direction)
            /\ tmax' = initial_tmax(step_size(sign(direction), direction),
                                    sign(direction), direction)
    /\ UNCHANGED <<start, end, stepped, prev_tmax, boxVars>>

\* lines 43-58: one iteration of the while loop
LoopStep(r) ==
    /\ pc = "loop"
    /\ loop_condition(tmax)
    /\ Len(calls) < MaxCalls
    /\ LET ax == select_axis(tmax) IN
        /\ current_position' = step_along(current_position, step, ax)
        /\ tmax' = step_along(tmax, stepSize, ax)
        /\ stepped' = ax
        /\ prev_tmax' = tmax
        /\ calls' = Append(calls, step_along(current_position, step, ax))
    /\ results' = Append(results, r)
    /\ pc' = IF r = "err" THEN "panic"
             ELSE IF check_callback(r) THEN "done" ELSE "loop"
    /\ UNCHANGED <<start, end, step, stepSize, boxVars>>

\* line 43: the while condition is false
LoopExit ==
    /\ pc = "loop"
    /\ ~loop_condition(tmax)
    /\ pc' = "done"
    /\ UNCHANGED <<start, end, rayVars, boxVars>>

RayInit ==
    /\ pc = "start"
    /\ start \in RayPoints
    /\ end \in RayPoints
    /\ current_position = NoVec
    /\ step = NoVec
    /\ stepSize = NoVec
    /\ tmax = NoVec
    /\ calls = <<>>
    /\ results = <<>>
    /\ stepped = "none"
    /\ prev_tmax = NoVec
    /\ self = None
    /\ aabb = None
    /\ face_index = 0
    /\ min_distance = None
    /\ hit_position = None
    /\ ret = None

RayNext ==
    \/ ReturnEqual
    \/ \E r \in CallbackResults : FirstBlock(r)
    \/ \E r \in CallbackResults : LoopStep(r)
    \/ LoopExit

SpecRay == RayInit /\ [][RayNext]_vars

(***************************************************************************)
(* Properties of transverse_blocks                                         *)
(***************************************************************************)
HasNaN(v) == IsNaN(v.x) \/ IsNaN(v.y) \/ IsNaN(v.z)

AllFalse == \A i \in 1..Len(results) : results[i] = "false"

MinF(a, b) == IF FLt(b, a) THEN b ELSE a

MaxF(a, b) == IF FLt(a, b) THEN b ELSE a

\* block coordinate c lies between the blocks of the two end points on axis ax
InSegmentRange(c, ax) ==
    /\ FLe(FFloor(MinF(axis(start, ax), axis(end, ax))), c)
    /\ FLe(c, FFloor(MaxF(axis(start, ax), axis(end, ax))))

\* C1: with a predicate that always returns false, the blocks passed to the
\* predicate are the blocks the segment passes through: the first is
\* floor(start), the last is floor(end), and none lies outside the blocks the
\* segment enters.
C1_VisitsSegmentBlocks ==
    (pc = "done" /\ calls # <<>> /\ AllFalse) =>
        /\ equals(calls[1], floor(start))
        /\ equals(calls[Len(calls)], floor(end))
        /\ \A i \in 1..Len(calls) : \A ax \in Axes : InSegmentRange(axis(calls[i], ax), ax)

\* C2: once the predicate has returned true it is never invoked again and
\* neither the current block nor tmax is stepped any further; a true on the
\* first block leaves exactly one invocation and no traversal set-up.
C2_StopsOnTrue ==
    /\ Len(calls) = Len(results)
    /\ \A i \in 1..Len(results) :
          results[i] = "true" =>
              /\ i = Len(results)
              /\ pc = "done"
              /\ current_position = calls[i]
              /\ (i = 1 => tmax = NoVec /\ stepped = "none")

C2_Witness ==
    /\ pc = "done"
    /\ Len(results) >= 3
    /\ results[Len(results)] = "true"

C7_SignOfZeroIsZero ==
    pc = "loop" =>
        \A ax \in Axes :
            /\ FLt(axis(direction, ax), Num(0)) => FEq(axis(step, ax), Num(-1))
            /\ FGt(axis(direction, ax), Num(0)) => FEq(axis(step, ax), Num(1))
            /\ FEq(axis(start, ax), axis(end, ax)) => FEq(axis(step, ax), Num(0))

\* C8: on an axis with start[axis] == end[axis] the tmax is +infinity, the
\* axis is never stepped and every block passed to the predicate keeps the
\* coordinate floor(start[axis]).
C8_NonMovingAxisFrozen ==
    \A ax \in Axes :
        FEq(axis(start, ax), axis(end, ax)) =>
            /\ tmax # NoVec => FEq(axis(tmax, ax), INFINITY)
            /\ stepped # ax
            /\ \A i \in 1..Len(calls) : FEq(axis(calls[i], ax), FFloor(axis(start, ax)))

\* C9: every loop iteration strictly increases the tmax of the stepped axis
\* by a positive step size, the traversal ends exactly when all three tmax
\* exceed 1.0 or the predicate returned true, and so it never needs more
\* predicate invocations than the blocks between the end points allow.
C9_StepsMakeProgress ==
    /\ stepped # "none" =>
          /\ FGt(axis(stepSize, stepped), Num(0))
          /\ FLt(axis(prev_tmax, stepped), axis(tmax, stepped))
    /\ (pc = "done" /\ calls # <<>> /\ AllFalse) =>
          FGt(tmax.x, Num(1)) /\ FGt(tmax.y, Num(1)) /\ FGt(tmax.z, Num(1))
    /\ (pc = "loop" /\ ~loop_condition(tmax)) =>
          FGt(tmax.x, Num(1)) /\ FGt(tmax.y, Num(1)) /\ FGt(tmax.z, Num(1))

\* |a - b| = 1
DiffersByOne(a, b) == FEq(FSub(a, b), Num(1)) \/ FEq(FSub(b, a), Num(1))

FaceAdjacent(u, v) ==
    \E ax \in Axes :
        /\ DiffersByOne(axis(u, ax), axis(v, ax))
        /\ \A o \in Axes \ {ax} : FEq(axis(u, o), axis(v, o))

AABB(min, max) == [min |-> min, max |-> max]

EPSILON == Frac(1, 10000000)

intersects(a, b) ==
    IF FLt(FSub(b.max.x, a.min.x), EPSILON) \/ FLt(FSub(a.max.x, b.min.x), EPSILON)
    THEN FALSE
    ELSE IF FLt(FSub(b.max.y, a.min.y), EPSILON) \/ FLt(FSub(a.max.y, b.min.y), EPSILON)
    THEN FALSE
    ELSE FGt(FSub(b.max.z, a.min.z), EPSILON) /\ FGt(FSub(a.max.z, b.min.z), EPSILON)

\* the crossing of the segment vec_a -> vec_b with the plane ax = value, or None
on_line(ax, vec_a, vec_b, value) ==
    LET axis_a == axis(vec_a, ax)
        axis_b == axis(vec_b, ax)
        f == FDiv(FSub(value, axis_a), FSub(axis_b, axis_a))
    IN  IF FLt(f, Num(0)) \/ FGt(f, Num(1)) THEN None
        ELSE Vector3f(
            IF ax = "X" THEN value ELSE FAdd(vec_a.x, FMul(FSub(vec_b.x, vec_a.x), f)),
            IF ax = "Y" THEN value ELSE FAdd(vec_a.y, FMul(FSub(vec_b.y, vec_a.y), f)),
            IF ax = "Z" THEN value ELSE FAdd(vec_a.z, FMul(FSub(vec_b.z, vec_a.z), f)))

\* axes is the two-element vector get_axis returns
within_axis(box, axes, vector) ==
    LET first == axes[1]
        second == axes[2]
        vec_axis_a == axis(vector, first)
        vec_axis_b == axis(vector, second)
    IN  IF FLt(vec_axis_b, axis(box.min, second)) \/ FGt(vec_axis_b, axis(box.max, second))
        THEN FALSE
        ELSE FGe(vec_axis_a, axis(box.min, first)) /\ FLe(vec_axis_a, axis(box.max, first))

get_axis(ax) ==
    IF ax = "X" THEN <<"Y", "Z">>
    ELSE IF ax = "Y" THEN <<"X", "Z">>
    ELSE <<"X", "Y">>

\* the faces vector of intercept (aabb.rs lines 189-196)
faces(box) ==
    << [axis |-> "X", value |-> box.min.x], [axis |-> "X", value |-> box.max.x],
       [axis |-> "Y", value |-> box.min.y], [axis |-> "Y", value |-> box.max.y],
       [axis |-> "Z", value |-> box.min.z], [axis |-> "Z", value |-> box.max.z] >>

\* variant: a candidate of equal distance is dropped too
is_farther_or_equal(vector_distance, best) == FGe(vector_distance, best)

\* aabb.rs line 207: the candidate is dropped when this holds
is_farther(vector_distance, best) == FGt(vector_distance, best)

HitResult(distance, position) == [distance |-> distance, position |-> position]

\* the crossing computed for the face at face_index
face_vector == on_line(faces(aabb)[face_index].axis, start, end, faces(aabb)[face_index].value)

\* lines 199-201: on_line found no crossing on this face
FaceNoCrossing ==
    /\ pc = "faces"
    /\ face_index <= 6
    /\ face_vector = None
    /\ face_index' = face_index + 1
    /\ UNCHANGED <<pc, start, end, rayVars, self, aabb, min_distance, hit_position, ret>>

\* line 204: the crossing lies outside the face
FaceOutOfBounds ==
    /\ pc = "faces"
    /\ face_index <= 6
    /\ face_vector # None
    /\ ~within_axis(aabb, get_axis(faces(aabb)[face_index].axis), face_vector)
    /\ face_index' = face_index + 1
    /\ UNCHANGED <<pc, start, end, rayVars, self, aabb, min_distance, hit_position, ret>>

\* lines 205-207: the crossing is farther than the best one so far
FaceFarther ==
    /\ pc = "faces"
    /\ face_index <= 6
    /\ face_vector # None
    /\ within_axis(aabb, get_axis(faces(aabb)[face_index].axis), face_vector)
    /\ is_farther(square_length(face_vector), min_distance)
    /\ face_index' = face_index + 1
    /\ UNCHANGED <<pc, start, end, rayVars, self, aabb, min_distance, hit_position, ret>>

\* lines 208-209: the crossing becomes the best one
FaceBest ==
    /\ pc = "faces"
    /\ face_index <= 6
    /\ face_vector # None
    /\ within_axis(aabb, get_axis(faces(aabb)[face_index].axis), face_vector)
    /\ ~is_farther(square_length(face_vector), min_distance)
    /\ min_distance' = square_length(face_vector)
    /\ hit_position' = face_vector
    /\ face_index' = face_index + 1
    /\ UNCHANGED <<pc, start, end, rayVars, self, aabb, ret>>

\* lines 212-217
InterceptReturn ==
    /\ pc = "faces"
    /\ face_index = 7
    /\ ret' = IF hit_position = None THEN None ELSE HitResult(min_distance, hit_position)
    /\ pc' = "intercept_ret"
    /\ UNCHANGED <<start, end, rayVars, self, aabb, face_index, min_distance, hit_position>>

\* segment end points of the intercept runs: integer coordinates in -1..MaxP
MaxP == 1

InterceptPoints ==
    {Vector3f(Num(px), Num(py), Num(pz)) : px \in -1..MaxP, py \in -1..MaxP, pz \in -1..MaxP}

\* extents of the boxes of the intercept runs on one axis: centred on the
\* origin, and away from it
InterceptExtents ==
    { <<Frac(-1, 2), Frac(1, 2)>>, <<Frac(1, 4), Frac(3, 4)>> }

InterceptBoxes ==
    {AABB(Vector3f(ex[1], ey[1], ez[1]), Vector3f(ex[2], ey[2], ez[2])) :
        ex \in InterceptExtents, ey \in InterceptExtents, ez \in InterceptExtents}

InterceptInit ==
    /\ pc = "faces"
    /\ start \in InterceptPoints
    /\ end \in InterceptPoints
    /\ aabb \in InterceptBoxes
    /\ face_index = 1
    /\ min_distance = INFINITY
    /\ hit_position = None
    /\ ret = None
    /\ self = None
    /\ current_position = NoVec
    /\ step = NoVec
    /\ stepSize = NoVec
    /\ tmax = NoVec
    /\ calls = <<>>
    /\ results = <<>>
    /\ stepped = "none"
    /\ prev_tmax = NoVec

InterceptNext ==
    \/ FaceNoCrossing
    \/ FaceOutOfBounds
    \/ FaceFarther
    \/ FaceBest
    \/ InterceptReturn

SpecIntercept == InterceptInit /\ [][InterceptNext]_vars

\* boxes of the intersects runs: corners on the grid k * EPSILON, k in 0..MaxG
MaxG == 2

GridExtents == {<<FMul(Num(lo), EPSILON), FMul(Num(hi), EPSILON)>> : lo \in 0..MaxG, hi \in 0..MaxG}

OrderedExtents == {e \in GridExtents : FLe(e[1], e[2])}

IntersectsBoxes ==
    {AABB(Vector3f(ex[1], ey[1], ez[1]), Vector3f(ex[2], ey[2], ez[2])) :
        ex \in OrderedExtents, ey \in OrderedExtents, ez \in OrderedExtents}

\* self.intersects(aabb)
Intersects ==
    /\ pc = "intersects"
    /\ ret' = intersects(self, aabb)
    /\ pc' = "intersects_ret"
    /\ UNCHANGED <<start, end, rayVars, self, aabb, face_index, min_distance, hit_position>>

IntersectsInit ==
    /\ pc = "intersects"
    /\ self \in IntersectsBoxes
    /\ aabb \in IntersectsBoxes
    /\ ret = None
    /\ start = NoVec
    /\ end = NoVec
    /\ face_index = 0
    /\ min_distance = None
    /\ hit_position = None
    /\ current_position = NoVec
    /\ step = NoVec
    /\ stepSize = NoVec
    /\ tmax = NoVec
    /\ calls = <<>>
    /\ results = <<>>
    /\ stepped = "none"
    /\ prev_tmax = NoVec

IntersectsNext == Intersects

SpecIntersects == IntersectsInit /\ [][IntersectsNext]_vars

(***************************************************************************)
(* Properties of AABB::intersects and AABB::intercept                      *)
(***************************************************************************)
\* the overlap margins of boxes a and b on axis ax
Margins(a, b, ax) ==
    {FSub(axis(b.max, ax), axis(a.min, ax)), FSub(axis(a.max, ax), axis(b.min, ax))}

\* C4: a.intersects(b) is true if and only if both overlap margins strictly
\* exceed EPSILON on each of the axes X, Y and Z; a margin less than or equal
\* to EPSILON on any axis gives false.
C4_StrictOnEveryAxis ==
    pc = "intersects_ret" =>
        (ret <=> \A ax \in Axes : \A m \in Margins(self, aabb, ax) : FGt(m, EPSILON))

\* the faces whose crossing is valid and inside the face, with the crossing
ValidFaces ==
    {i \in 1..6 :
        LET v == on_line(faces(aabb)[i].axis, start, end, faces(aabb)[i].value)
        IN  v # None /\ within_axis(aabb, get_axis(faces(aabb)[i].axis), v)}

Crossing(i) == on_line(faces(aabb)[i].axis, start, end, faces(aabb)[i].value)

\* squared distance between two points
DistanceSquared(u, v) == square_length(subtract(u, v))

\* C3: when the segment crosses at least one face inside the face's extent,
\* intercept returns the valid crossing nearest to start.
C3_NearestToStart ==
    (pc = "intercept_ret" /\ ValidFaces # {}) =>
        /\ ret # None
        /\ \A i \in ValidFaces :
              FLe(DistanceSquared(start, ret.position), DistanceSquared(start, Crossing(i)))

\* the valid faces whose crossing has the smallest square_length
NearestFaces ==
    {i \in ValidFaces :
        \A j \in ValidFaces : FLe(square_length(Crossing(i)), square_length(Crossing(j)))}

MinOf(S) == CHOOSE i \in S : \A j \in S : i <= j

MaxOf(S) == CHOOSE i \in S : \A j \in S : j <= i

\* C5 (as stated): among valid crossings of equal squared distance the face
\* that comes first in the order -X, +X, -Y, +Y, -Z, +Z wins.
C5_FirstFaceWinsTies ==
    (pc = "intercept_ret" /\ NearestFaces # {}) =>
        /\ ret # None
        /\ ret.position = Crossing(MinOf(NearestFaces))

\* C5 (amended): among valid crossings of equal smallest square_length the
\* face that comes last in the order -X, +X, -Y, +Y, -Z, +Z wins: a later
\* candidate of equal distance replaces the current best.
C5_LastFaceWinsTies ==
    (pc = "intercept_ret" /\ NearestFaces # {}) =>
        /\ ret # None
        /\ ret.position = Crossing(MaxOf(NearestFaces))
        /\ ret.distance = square_length(Crossing(MaxOf(NearestFaces)))

C5_Witness ==
    /\ pc = "intercept_ret"
    /\ Cardinality(NearestFaces) >= 2
    /\ Crossing(MinOf(NearestFaces)) # Crossing(MaxOf(NearestFaces))
    /\ ret # None

====
